---- MODULE Spec2Model ----
(***************************************************************************)
(* Model of the migration merge engine of python-l20n:                     *)
(*   tools/migrate/merge.py  get_entity, merge, class MergeContext         *)
(*                           (MESSAGE, SOURCE, PLURALS, add_transforms)    *)
(*   l20n/migrate/merge.py   get_entity, merge (Comments, Sections,        *)
(*                           comment backfill)                             *)
(*                                                                         *)
(* Python's None is the string "None" where the other values are strings   *)
(* and the empty tuple where they are tuples.  A dict is a function whose  *)
(* DOMAIN is the set of keys present.                                      *)
(***************************************************************************)
EXTENDS Integers, Sequences, FiniteSets, TLC

VARIABLES
    reference_resources,  \* MergeContext.reference_resources: path -> Resource
    current_resources,    \* MergeContext.current_resources:   path -> Resource
    legacy_resources,     \* MergeContext.legacy_resources: path -> (key -> value)
    transforms,           \* MergeContext.transforms: path -> list of Entity
    current_message,      \* MergeContext.current_message: <<path, key>> or NoMessage
    dependencies,         \* MergeContext.dependencies: <<path, key>> -> set of pairs
    partial,              \* the partial returned by MESSAGE and not yet called
    pending,              \* the (path, node) pairs of the list being built
    ret,                  \* outcome of the most recent call
    installed,            \* path -> the merge call whose output add_current read
    plural_categories,    \* MergeContext.plural_categories: tuple of names
    calls                 \* add_* and declaring calls made since the configuration

vars == <<reference_resources, current_resources, legacy_resources, transforms,
          current_message, dependencies, partial, pending, ret, installed,
          plural_categories, calls>>

ctx == <<reference_resources, current_resources, legacy_resources, transforms,
         current_message, dependencies>>

----------------------------------------------------------------------------
(* Bounds and input sets *)

MaxSources == 2      \* SOURCE calls in one message's transform tree
MaxTransforms == 2   \* (path, node) pairs declared in one session
MaxCalls == 1        \* add_* and declaring calls after a session's configuration

None == "None"
NoMessage == <<>>

TargetPaths == {"a.ftl", "b.ftl"}
Idents == {"m1", "m2"}
LegacyPath == "a.dtd"
\* The legacy file a.dtd holds k1 and k2; k3 is a key it does not hold.
LegacyFile == [k \in {"k1", "k2"} |-> IF k = "k1" THEN "v1" ELSE "v2"]
LegacyKeys == {"k1", "k2", "k3"}
\* What a.dtd holds once k3 has been added to it, and a second legacy file.
LegacyFileMore == [k \in LegacyKeys |-> IF k = "k1" THEN "v1"
                                        ELSE IF k = "k2" THEN "v2" ELSE "v3"]
LegacyOther == [k \in {"k9"} |-> "v9"]
Pairs == {<<LegacyPath, k>> : k \in LegacyKeys} \cup {<<"b.dtd", "k9">>}
\* Inputs of the builder calls: the messages declared with MESSAGE, the keys
\* read with SOURCE (one the legacy file does not hold, one of a path no
\* add_legacy registered), and the entities written without MESSAGE.
BuildMessages == {<<"a.ftl", "m1">>, <<"a.ftl", "m2">>}
BuildSources == {<<LegacyPath, "k3">>, <<"zz.dtd", "k1">>}
BuildRaw == {<<"a.ftl", "m2", None>>, <<"a.ftl", "m2", "own">>}

Min(S) == CHOOSE x \in S : \A y \in S : x <= y
Max(S) == CHOOSE x \in S : \A y \in S : x >= y

----------------------------------------------------------------------------
(* FTL AST nodes (l20n.format.ast) *)

\* FTL.Entity(id, value, traits, comment).  value holds the values the SOURCE
\* calls of the transform tree returned, in call order.  Two fields are not
\* fields of the Python object: decl tells how the node was written ("MESSAGE"
\* for the MESSAGE partial, "Entity" for a plain FTL.Entity, "file" for a parsed
\* file), and leaves lists the Source leaves of its transform tree.
Entity(id, value, comment, decl, leaves) ==
    [type |-> "Entity", id |-> id, value |-> value, comment |-> comment,
     decl |-> decl, leaves |-> leaves]
Comment(content) == [type |-> "Comment", content |-> content]
Section(key, body, comment) ==
    [type |-> "Section", key |-> key, body |-> body, comment |-> comment]
Resource(body, comment) == [body |-> body, comment |-> comment]
\* FTL.Resource(): no body, no comment.
EmptyResource == Resource(<<>>, None)

\* Only an Entity has an `id` attribute; `entry.id` on a Comment or a Section
\* raises AttributeError.
HasId(entry) == entry.type = "Entity"

----------------------------------------------------------------------------
(* get_entity: the index of the first entity of `body` called `ident`,      *)
(* 0 for None (no match), -1 when `entity.id` raises before a match.        *)

get_entity_last(body, ident) ==
    LET hits == {i \in 1..Len(body) : ~HasId(body[i]) \/ body[i].id = ident}
    IN  IF hits = {} THEN 0
        ELSE IF HasId(body[Max(hits)]) THEN Max(hits) ELSE -1

get_entity(body, ident) ==
    LET hits == {i \in 1..Len(body) : ~HasId(body[i]) \/ body[i].id = ident}
    IN  IF hits = {} THEN 0
        ELSE IF HasId(body[Min(hits)]) THEN Min(hits) ELSE -1

----------------------------------------------------------------------------
(* Transform builder: MESSAGE, SOURCE, add_transforms *)

DictGet(d, k, default) == IF k \in DOMAIN d THEN d[k] ELSE default
DictSet(d, k, v) == [x \in DOMAIN d \cup {k} |-> IF x = k THEN v ELSE d[x]]

\* message(path, key), line 173: self.dependencies[self.current_message] = set()
message_deps_keep(deps, path, key) ==
    IF <<path, key>> \in DOMAIN deps THEN deps ELSE DictSet(deps, <<path, key>>, {})

message_deps(deps, path, key) == DictSet(deps, <<path, key>>, {})

\* source(path, key), lines 187-188: add the pair to the current message's set.
source_deps_if_found(deps, cm, legacy, path, key) ==
    IF path \in DOMAIN legacy /\ key \in DOMAIN legacy[path]
    THEN DictSet(deps, cm, deps[cm] \cup {<<path, key>>})
    ELSE deps

source_deps(deps, cm, legacy, path, key) ==
    DictSet(deps, cm, deps[cm] \cup {<<path, key>>})

\* source(path, key), lines 190-192: the entity's value, or None.
source_value(legacy, path, key) ==
    IF key \in DOMAIN legacy[path] THEN legacy[path][key] ELSE None

\* add_transforms, lines 144-147: append every node to its path's list.
RECURSIVE add_transforms_replace(_, _)
add_transforms_replace(reg, pairs) ==
    IF pairs = <<>> THEN reg
    ELSE LET path == pairs[1][1]
             node == pairs[1][2]
             old  == DictGet(reg, path, <<>>)
             kept == SelectSeq(old, LAMBDA e : ~HasId(e) \/ e.id # node.id)
         IN  add_transforms_replace(DictSet(reg, path, Append(kept, node)),
                                    Tail(pairs))

RECURSIVE add_transforms_reg(_, _)
add_transforms_reg(reg, pairs) ==
    IF pairs = <<>> THEN reg
    ELSE LET path == pairs[1][1]
             node == pairs[1][2]
         IN  add_transforms_reg(
                 DictSet(reg, path, Append(DictGet(reg, path, <<>>), node)),
                 Tail(pairs))

Declared == Len(pending) +
    (IF "a.ftl" \in DOMAIN transforms THEN Len(transforms["a.ftl"]) ELSE 0) +
    (IF "b.ftl" \in DOMAIN transforms THEN Len(transforms["b.ftl"]) ELSE 0)

Returned(op, args, value) == [op |-> op, args |-> args, exc |-> None, value |-> value]
Raised(op, args, exc) == [op |-> op, args |-> args, exc |-> exc, value |-> None]

\* The expression being evaluated: <<>> when none is, the partial MESSAGE
\* returned with the values its arguments have read so far, or, with path and
\* key None, the values SOURCE returned outside any partial (the arguments of
\* a plain FTL.Entity).
Frame(path, key) == [path |-> path, key |-> key, value |-> <<>>, leaves |-> <<>>]
NoOpenPartial == IF partial = <<>> THEN TRUE ELSE partial[1].path = None

\* MESSAGE(path, key): lines 170-180.  (`calls` is set where the action is
\* used: a session counts the declaring calls it makes, a build does not.)
Message(path, key) ==
    /\ NoOpenPartial
    /\ Declared < MaxTransforms
    /\ current_message' = <<path, key>>
    /\ dependencies' = message_deps(dependencies, path, key)
    /\ partial' = <<Frame(path, key)>>
    /\ ret' = Returned("MESSAGE", <<path, key>>, None)
    /\ UNCHANGED plural_categories
    /\ UNCHANGED <<reference_resources, current_resources, legacy_resources,
                   transforms, pending, installed>>

\* SOURCE(path, key), lines 185-192, with a current message recorded in
\* dependencies, inside a partial or not: the pair is added (line 188), then
\* the lookup returns the value or None, or raises KeyError for a path that
\* add_legacy did not register (line 190); the exception abandons the list
\* under construction.
Source(path, key) ==
    /\ current_message \in DOMAIN dependencies
    /\ LET frame == IF partial = <<>> THEN Frame(None, None) ELSE partial[1]
       IN  /\ Len(frame.leaves) < MaxSources
           /\ dependencies' = source_deps(dependencies, current_message,
                                          legacy_resources, path, key)
           /\ IF path \in DOMAIN legacy_resources
              THEN LET v == source_value(legacy_resources, path, key)
                   IN  /\ partial' = <<[frame EXCEPT
                                           !.value = Append(@, v),
                                           !.leaves = Append(@, <<path, key>>)]>>
                       /\ ret' = Returned("SOURCE", <<path, key>>, v)
                       /\ pending' = pending
              ELSE /\ partial' = <<>>
                   /\ ret' = Raised("SOURCE", <<path, key>>, "KeyError")
                   /\ pending' = <<>>
    /\ UNCHANGED <<plural_categories, calls>>
    /\ UNCHANGED <<reference_resources, current_resources, legacy_resources,
                   transforms, current_message, installed>>

\* SOURCE(path, key) with no current message: line 187 raises KeyError, and the
\* exception abandons the list under construction.
SourceNoMessage(path, key) ==
    /\ current_message \notin DOMAIN dependencies
    /\ ret' = Raised("SOURCE", <<path, key>>, "KeyError")
    /\ pending' = <<>>
    /\ partial' = <<>>
    /\ UNCHANGED <<plural_categories, calls>>
    /\ UNCHANGED <<reference_resources, current_resources, legacy_resources,
                   transforms, current_message, dependencies, installed>>

\* partial(value, traits): lines 175-179.
Partial ==
    /\ ~NoOpenPartial
    /\ LET p == partial[1]
           node == Entity(p.key, p.value, None, "MESSAGE", p.leaves)
       IN  /\ pending' = Append(pending, <<p.path, node>>)
           /\ ret' = Returned("partial", <<p.path, p.key>>, None)
    /\ partial' = <<>>
    /\ UNCHANGED <<plural_categories, calls>>
    /\ UNCHANGED <<reference_resources, current_resources, legacy_resources,
                   transforms, current_message, dependencies, installed>>

\* A (path, FTL.Entity(...)) pair written without MESSAGE, with or without a
\* comment of its own; its value holds what SOURCE returned for its arguments.
RawEntity(path, id, comment) ==
    /\ NoOpenPartial
    /\ Declared < MaxTransforms
    /\ LET frame == IF partial = <<>> THEN Frame(None, None) ELSE partial[1]
       IN  pending' = Append(pending,
               <<path, Entity(id, frame.value, comment, "Entity", frame.leaves)>>)
    /\ partial' = <<>>
    /\ ret' = Returned("Entity", <<path, id>>, None)
    /\ UNCHANGED plural_categories
    /\ UNCHANGED <<reference_resources, current_resources, legacy_resources,
                   transforms, current_message, dependencies, installed>>

\* add_transforms(transforms), lines 139-147, of the list under construction;
\* an empty list leaves the context as it is.
AddTransforms_keep_message ==
    /\ NoOpenPartial
    /\ transforms' = add_transforms_reg(transforms, pending)
    /\ pending' = <<>>
    /\ partial' = <<>>
    /\ ret' = Returned("add_transforms", pending, None)
    /\ UNCHANGED <<plural_categories, calls>>
    /\ UNCHANGED <<reference_resources, current_resources, legacy_resources,
                   current_message, dependencies, installed>>

AddTransforms ==
    /\ NoOpenPartial
    /\ current_message' = IF pending = <<>> THEN current_message ELSE NoMessage
    /\ transforms' = add_transforms_reg(transforms, pending)
    /\ pending' = <<>>
    /\ partial' = <<>>
    /\ ret' = Returned("add_transforms", pending, None)
    /\ UNCHANGED <<plural_categories, calls>>
    /\ UNCHANGED <<reference_resources, current_resources, legacy_resources,
                   dependencies, installed>>

\* MergeContext.__init__, lines 75-100, followed by add_legacy("a.dtd").
Constructed ==
    /\ reference_resources = <<>>
    /\ current_resources = <<>>
    /\ legacy_resources = [p \in {LegacyPath} |-> LegacyFile]
    /\ transforms = <<>>
    /\ current_message = NoMessage
    /\ dependencies = <<>>
    /\ partial = <<>>
    /\ pending = <<>>
    /\ ret = Returned("__init__", <<>>, None)
    /\ installed = <<>>
    /\ plural_categories = <<"one", "other">>
    /\ calls = 0

InitBuild == Constructed

NextBuild ==
    \/ \E m \in BuildMessages : Message(m[1], m[2]) /\ UNCHANGED calls
    \/ \E s \in BuildSources : Source(s[1], s[2])
    \/ \E s \in BuildSources : SourceNoMessage(s[1], s[2])
    \/ Partial
    \/ \E r \in BuildRaw : RawEntity(r[1], r[2], r[3]) /\ UNCHANGED calls
    \/ AddTransforms

SpecBuild == InitBuild /\ [][NextBuild]_vars

----------------------------------------------------------------------------
(* PLURALS: variants keyed by the context's plural categories *)

\* get_plural_categories(lang) of cldr: the ordered category names of a
\* language.
Langs == {"en", "pl", "ja"}
get_plural_categories(lang) ==
    IF lang = "en" THEN <<"one", "other">>
    ELSE IF lang = "pl" THEN <<"one", "few", "many", "other">>
    ELSE <<"other">>

\* A legacy string is a sequence of tokens: words, the delimiter ";" of the
\* plural forms and the placeholder "#1".
RECURSIVE Join(_)
Join(forms) ==
    IF Len(forms) = 1 THEN forms[1]
    ELSE forms[1] \o <<";">> \o Join(Tail(forms))

\* The legacy file: the two strings of the tests (two forms each, the second
\* form of deleteN holding the placeholder), a string of a single form and a
\* string of four.  The file is the same whatever the language of the
\* context, so a string may have fewer or more forms than the language has
\* plural categories.
PluralKeys == {"deleteOne", "deleteAll", "deleteN", "deleteFour"}
LegacyPlural ==
    [key \in PluralKeys |->
        IF key = "deleteOne" THEN Join(<< <<"w1">> >>)
        ELSE IF key = "deleteAll" THEN Join(<< <<"w1">>, <<"w2">> >>)
        ELSE IF key = "deleteN" THEN Join(<< <<"w1">>, <<"w2", "#1", "x">> >>)
        ELSE Join(<< <<"w1">>, <<"w2">>, <<"w3">>, <<"w4", "#1", "x">> >>)]

\* str.split(sep)
RECURSIVE Split(_, _)
Split(text, sep) ==
    IF text = <<>> THEN << <<>> >>
    ELSE LET rest == Split(Tail(text), sep)
         IN  IF text[1] = sep THEN << <<>> >> \o rest
             ELSE << <<text[1]>> \o rest[1] >> \o Tail(rest)

TextElement(value) == [type |-> "TextElement", value |-> value]
ExternalArgument(name) == [type |-> "ExternalArgument", value |-> <<name>>]
Variant(key, value, default) == [key |-> key, value |-> value, default |-> default]
SelectExpression(expression, variants) ==
    [type |-> "SelectExpression", expression |-> expression, variants |-> variants]

\* COPY(source): the source as one literal text element.
COPY(source) == <<TextElement(source)>>

\* REPLACE(source, {placeholder: [argument]}): the text around each occurrence
\* of the placeholder, with the argument in its place.
RECURSIVE Interleave(_, _)
Interleave(pieces, argument) ==
    LET text == IF pieces[1] = <<>> THEN <<>> ELSE <<TextElement(pieces[1])>>
    IN  IF Len(pieces) = 1 THEN text
        ELSE text \o <<argument>> \o Interleave(Tail(pieces), argument)

REPLACE(source, placeholder, argument) ==
    Interleave(Split(source, placeholder), argument)

\* The `foreach` callbacks of the tests: lambda var: COPY(var) and
\* lambda var: REPLACE(var, {'#1': [FTL.ExternalArgument('num')]}).
Foreach(foreach, var) ==
    IF foreach = "COPY" THEN COPY(var)
    ELSE REPLACE(var, "#1", ExternalArgument("num"))

\* VARIANTS(source, selector, keys, foreach): the forms of the source paired
\* with the keys in order; the variant keyed `other` is the default one.
VARIANTS_default_first(source, selector, keys, foreach) ==
    LET forms == Split(source, ";")
        n == Min({Len(keys), Len(forms)})
    IN  SelectExpression(selector,
            [i \in 1..n |-> Variant(keys[i], Foreach(foreach, forms[i]), i = 1)])

VARIANTS(source, selector, keys, foreach) ==
    LET forms == Split(source, ";")
        n == Min({Len(keys), Len(forms)})
    IN  SelectExpression(selector,
            [i \in 1..n |-> Variant(keys[i], Foreach(foreach, forms[i]),
                                    keys[i] = "other")])

\* plurals(source, selector, foreach), lines 197-199: VARIANTS with the
\* context's plural categories as keys.
plurals(categories, source, selector, foreach) ==
    VARIANTS(source, selector, categories, foreach)

\* value=PLURALS(SOURCE(path, key), FTL.ExternalArgument('num'), foreach), the
\* value of the open partial: source runs first (lines 185-192), then plurals
\* (lines 197-199).
Plurals(path, key, foreach) ==
    /\ ~NoOpenPartial
    /\ partial[1].leaves = <<>>
    /\ current_message \in DOMAIN dependencies
    /\ path \in DOMAIN legacy_resources
    /\ key \in DOMAIN legacy_resources[path]
    /\ dependencies' = source_deps(dependencies, current_message,
                                   legacy_resources, path, key)
    /\ LET source == source_value(legacy_resources, path, key)
           v == plurals(plural_categories, source, ExternalArgument("num"), foreach)
       IN  /\ partial' = <<[partial[1] EXCEPT !.value = Append(@, v),
                                              !.leaves = Append(@, <<path, key>>)]>>
           /\ ret' = Returned("PLURALS",
                              [path |-> path, key |-> key, foreach |-> foreach], v)
    /\ UNCHANGED <<plural_categories, calls>>
    /\ UNCHANGED <<reference_resources, current_resources, legacy_resources,
                   transforms, current_message, pending, installed>>

\* MergeContext(lang, ...), lines 75-100, followed by add_legacy("a.dtd").
InitPlural ==
    \E lang \in Langs :
        /\ reference_resources = <<>>
        /\ current_resources = <<>>
        /\ legacy_resources = [p \in {LegacyPath} |-> LegacyPlural]
        /\ transforms = <<>>
        /\ current_message = NoMessage
        /\ dependencies = <<>>
        /\ partial = <<>>
        /\ pending = <<>>
        /\ ret = Returned("__init__", <<lang>>, None)
        /\ installed = <<>>
        /\ plural_categories = get_plural_categories(lang)
        /\ calls = 0

PluralMessages == {<<"a.ftl", "m1">>, <<"a.ftl", "m2">>}

NextPlural ==
    \/ \E m \in PluralMessages : Message(m[1], m[2]) /\ UNCHANGED calls
    \/ \E key \in PluralKeys, foreach \in {"COPY", "REPLACE"} :
           Plurals(LegacyPath, key, foreach)
    \/ Partial
    \/ AddTransforms

SpecPlural == InitPlural /\ [][NextPlural]_vars

----------------------------------------------------------------------------
(* The changeset gate and the two merge functions *)

AllIdents == Idents \cup {"m3"}

\* in_changeset(ident), tools lines 222-230: the intersection of the message's
\* dependencies with the changeset; the caller tests its truth value.
in_changeset_any(deps, path, ident, changeset) ==
    DictGet(deps, <<path, ident>>, {})

in_changeset_default_all(deps, path, ident, changeset) ==
    DictGet(deps, <<path, ident>>, changeset) \cap changeset

in_changeset_outside(deps, path, ident, changeset) ==
    DictGet(deps, <<path, ident>>, {}) \ changeset

in_changeset(deps, path, ident, changeset) ==
    DictGet(deps, <<path, ident>>, {}) \cap changeset

Truthy(set) == set # {}

\* The closure in_changeset of one path, as a function of the identifier.
Gate(deps, path, changeset) ==
    [ident \in AllIdents |-> Truthy(in_changeset(deps, path, ident, changeset))]

Ok(out, trs) == [exc |-> FALSE, out |-> out, trs |-> trs]
AttributeError(trs) == [exc |-> TRUE, out |-> <<>>, trs |-> trs]

RECURSIVE Flatten(_)
Flatten(outs) == IF outs = <<>> THEN <<>> ELSE outs[1] \o Flatten(Tail(outs))

tools_merge_entry_only_new(entry, localization, trs, gate) ==
    IF ~HasId(entry) THEN AttributeError(trs)
    ELSE LET ident == entry.id
             existing == get_entity(localization.body, ident)
             transform == get_entity(trs, ident)
         IN  IF ~gate[ident] THEN Ok(<<>>, trs)
             ELSE IF existing = -1 THEN AttributeError(trs)
             ELSE IF existing > 0 THEN Ok(<<>>, trs)
             ELSE IF transform = -1 THEN AttributeError(trs)
             ELSE IF transform > 0 THEN Ok(<<trs[transform]>>, trs)
             ELSE Ok(<<>>, trs)

tools_merge_entry_or_reference(entry, localization, trs, gate) ==
    IF ~HasId(entry) THEN AttributeError(trs)
    ELSE LET ident == entry.id
             existing == get_entity(localization.body, ident)
             transform == get_entity(trs, ident)
         IN  IF ~gate[ident] THEN Ok(<<>>, trs)
             ELSE IF existing = -1 THEN AttributeError(trs)
             ELSE IF existing > 0 THEN Ok(<<localization.body[existing]>>, trs)
             ELSE IF transform = -1 THEN AttributeError(trs)
             ELSE IF transform > 0 THEN Ok(<<trs[transform]>>, trs)
             ELSE Ok(<<entry>>, trs)

\* merge_entry of tools/migrate/merge.py, lines 32-44: the changeset gate is
\* consulted before the existing localization.
tools_merge_entry(entry, localization, trs, gate) ==
    IF ~HasId(entry) THEN AttributeError(trs)
    ELSE LET ident == entry.id
             existing == get_entity(localization.body, ident)
             transform == get_entity(trs, ident)
         IN  IF ~gate[ident] THEN Ok(<<>>, trs)
             ELSE IF existing = -1 THEN AttributeError(trs)
             ELSE IF existing > 0 THEN Ok(<<localization.body[existing]>>, trs)
             ELSE IF transform = -1 THEN AttributeError(trs)
             ELSE IF transform > 0 THEN Ok(<<trs[transform]>>, trs)
             ELSE Ok(<<>>, trs)

\* merge of tools/migrate/merge.py, lines 23-51.
merge_tools(reference, localization, trs, gate) ==
    LET entries == [i \in 1..Len(reference.body) |->
                       tools_merge_entry(reference.body[i], localization, trs, gate)]
    IN  IF \E i \in 1..Len(entries) : entries[i].exc
        THEN [exc |-> TRUE, resource |-> EmptyResource, trs |-> trs]
        ELSE [exc |-> FALSE,
              resource |-> Resource(Flatten([i \in 1..Len(entries) |-> entries[i].out]),
                                    reference.comment),
              trs |-> trs]

\* A transform object returned by merge_entry of l20n/migrate/merge.py: the
\* output holds the object of the transform list itself, so it shows the
\* comment the object has when merge returns.
TransformRef(index) == [type |-> "TransformRef", index |-> index]

\* Lines 56-57: if transform.comment is None: transform.comment = entry.comment
backfill_never(trs, index, entry) == trs

backfill(trs, index, entry) ==
    IF trs[index].comment = None
    THEN [trs EXCEPT ![index].comment = entry.comment]
    ELSE trs

RECURSIVE l20n_merge_body(_, _, _, _)
RECURSIVE l20n_merge_entry(_, _, _, _)

l20n_merge_body_swapped(body, localization, trs, gate) ==
    IF body = <<>> THEN Ok(<<>>, trs)
    ELSE LET first == l20n_merge_entry(body[1], localization, trs, gate)
         IN  IF first.exc THEN first
             ELSE LET rest == l20n_merge_body(Tail(body), localization,
                                              first.trs, gate)
                  IN  IF rest.exc THEN rest
                      ELSE Ok(rest.out \o first.out, rest.trs)

\* merge_body, l20n lines 22-27: map merge_entry over the body, in order; an
\* exception ends the map and keeps the assignments made so far.
l20n_merge_body(body, localization, trs, gate) ==
    IF body = <<>> THEN Ok(<<>>, trs)
    ELSE LET first == l20n_merge_entry(body[1], localization, trs, gate)
         IN  IF first.exc THEN first
             ELSE LET rest == l20n_merge_body(Tail(body), localization,
                                              first.trs, gate)
                  IN  IF rest.exc THEN rest
                      ELSE Ok(first.out \o rest.out, rest.trs)

\* merge_entry, l20n lines 29-58.
l20n_merge_entry(entry, localization, trs, gate) ==
    IF entry.type = "Comment" THEN Ok(<<entry>>, trs)
    ELSE IF entry.type = "Section"
    THEN LET body == l20n_merge_body(entry.body, localization, trs, gate)
         IN  IF body.exc THEN body
             ELSE Ok(<<Section(entry.key, body.out, entry.comment)>>, body.trs)
    ELSE LET ident == entry.id
             existing == get_entity(localization.body, ident)
             transform == get_entity(trs, ident)
         IN  IF existing = -1 THEN AttributeError(trs)
             ELSE IF existing > 0 THEN Ok(<<localization.body[existing]>>, trs)
             ELSE IF ~gate[ident] THEN Ok(<<>>, trs)
             ELSE IF transform = -1 THEN AttributeError(trs)
             ELSE IF transform > 0
                  THEN Ok(<<TransformRef(transform)>>, backfill(trs, transform, entry))
             ELSE Ok(<<>>, trs)

\* The entries the caller sees once merge has returned.
RECURSIVE Deref(_, _)
Deref(out, trs) ==
    [i \in 1..Len(out) |->
        IF out[i].type = "TransformRef" THEN trs[out[i].index]
        ELSE IF out[i].type = "Section"
             THEN Section(out[i].key, Deref(out[i].body, trs), out[i].comment)
        ELSE out[i]]

\* merge of l20n/migrate/merge.py, lines 13-61.
merge_l20n(reference, localization, trs, gate) ==
    LET body == l20n_merge_body(reference.body, localization, trs, gate)
    IN  IF body.exc
        THEN [exc |-> TRUE, resource |-> EmptyResource, trs |-> body.trs]
        ELSE [exc |-> FALSE,
              resource |-> Resource(Deref(body.out, body.trs), reference.comment),
              trs |-> body.trs]

----------------------------------------------------------------------------
(* MergeContext.merge and the merge session *)

\* Lines 210-216: the changeset of merge(None).
default_changeset_all_pairs(legacy) == Pairs

default_changeset(legacy) ==
    UNION {{<<path, key>> : key \in DOMAIN legacy[path]} : path \in DOMAIN legacy}

\* A changeset argument is <<>> for None and <<set>> for a set.
NoChangeset == <<>>
Effective(changeset, legacy) ==
    IF changeset = NoChangeset THEN default_changeset(legacy) ELSE changeset[1]

\* The context's data a merge call reads, with the changeset it was given.
Inputs(changeset) ==
    [changeset |-> changeset, reference |-> reference_resources,
     current |-> current_resources, transforms |-> transforms,
     dependencies |-> dependencies, legacy |-> legacy_resources]

\* Lines 232-235 for one path, with either merge function; `changeset` is
\* the set the gate intersects with.
MergePath(fn, in, path, changeset) ==
    LET reference == in.reference[path]
        current == DictGet(in.current, path, EmptyResource)
        trs == DictGet(in.transforms, path, <<>>)
        gate == Gate(in.dependencies, path, changeset)
    IN  IF fn = "tools" THEN merge_tools(reference, current, trs, gate)
        ELSE merge_l20n(reference, current, trs, gate)

\* MergeContext.merge(changeset), lines 202-238.  result[path] is the merged
\* Resource that line 236 hands to the serializer.
ContextMerge(changeset) ==
    /\ partial = <<>> /\ pending = <<>>
    /\ LET cs == Effective(changeset, legacy_resources)
           merged == [path \in DOMAIN reference_resources |->
                         MergePath("tools", Inputs(changeset), path, cs)]
       IN  ret' = IF \E path \in DOMAIN merged : merged[path].exc
                  THEN Raised("merge", Inputs(changeset), "AttributeError")
                  ELSE Returned("merge", Inputs(changeset),
                                [path \in DOMAIN merged |-> merged[path].resource])
    /\ UNCHANGED <<plural_categories, calls>>
    /\ UNCHANGED <<ctx, partial, pending, installed>>

\* merge(reference, localization, transforms, in_changeset) of
\* l20n/migrate/merge.py on the context's data of one path, with the gate that
\* MergeContext.merge builds for the path.
LibMerge(path, changeset) ==
    /\ partial = <<>> /\ pending = <<>>
    /\ path \in DOMAIN reference_resources
    /\ LET m == MergePath("l20n", Inputs(changeset), path, changeset[1])
           args == [Inputs(changeset) EXCEPT !.reference = (path :> @[path])]
       IN  /\ ret' = IF m.exc THEN Raised("merge_l20n", args, "AttributeError")
                     ELSE Returned("merge_l20n", args, (path :> m.resource))
           /\ transforms' = IF path \in DOMAIN transforms
                            THEN [transforms EXCEPT ![path] = m.trs]
                            ELSE transforms
    /\ UNCHANGED <<plural_categories, calls>>
    /\ UNCHANGED <<reference_resources, current_resources, legacy_resources,
                   current_message, dependencies, partial, pending, installed>>

IsMerge(r) == r.op \in {"merge", "merge_l20n"}

Idle == partial = <<>> /\ pending = <<>>

\* One more of the calls a session is followed for.
Call == calls < MaxCalls /\ calls' = calls + 1

\* The merge runs whose output the caller has at hand: the one that has just
\* returned, and those a current resource was read from.
Runs ==
    (IF IsMerge(ret) /\ ret.exc = None THEN {ret} ELSE {})
        \cup {installed[path] : path \in DOMAIN installed}

\* add_reference(path), lines 120-123: the parsed file replaces the path's
\* reference resource.
AddReference(path, file) ==
    /\ Idle
    /\ Call
    /\ reference_resources' = DictSet(reference_resources, path, file)
    /\ ret' = Returned("add_reference", <<path>>, None)
    /\ UNCHANGED <<current_resources, legacy_resources, transforms,
                   current_message, dependencies, partial, pending, installed,
                   plural_categories>>

\* add_current(path), lines 125-128: the parsed file replaces the path's
\* current resource.  `run` is <<>> for a file of the localization directory,
\* <<r>> for the file the caller wrote from the output of the merge run r.
AddCurrent(path, file, run) ==
    /\ Idle
    /\ Call
    /\ current_resources' = DictSet(current_resources, path, file)
    /\ installed' = IF run = <<>>
                    THEN [q \in DOMAIN installed \ {path} |-> installed[q]]
                    ELSE DictSet(installed, path, run[1])
    /\ ret' = Returned("add_current", <<path>>, None)
    /\ UNCHANGED <<reference_resources, legacy_resources, transforms,
                   current_message, dependencies, partial, pending,
                   plural_categories>>

\* read_ftl_resource, lines 102-118, on a file that is missing (codecs.open
\* raises IOError, line 103) or not valid UTF-8 (the handler of lines 106-108
\* logs, then line 111 reads `contents`, which was never bound:
\* UnboundLocalError): add_reference and add_current raise and assign nothing.
ReadFails(op, path, exc) ==
    /\ Idle
    /\ Call
    /\ ret' = Raised(op, <<path>>, exc)
    /\ UNCHANGED <<reference_resources, current_resources, legacy_resources,
                   transforms, current_message, dependencies, partial, pending,
                   installed, plural_categories>>

\* add_legacy(path), lines 130-137: the parsed collection replaces the path's.
AddLegacy(path, collection) ==
    /\ Idle
    /\ Call
    /\ legacy_resources' = DictSet(legacy_resources, path, collection)
    /\ ret' = Returned("add_legacy", <<path>>, None)
    /\ UNCHANGED <<reference_resources, current_resources, transforms,
                   current_message, dependencies, partial, pending, installed,
                   plural_categories>>

----------------------------------------------------------------------------
(* The merge session: a context configured by a migration script *)

\* One declaration of a migration script: MESSAGE(path, id)(value=...) over
\* SOURCE(a.dtd, key) for the keys, or a plain (path, FTL.Entity) or
\* (path, FTL.Comment) pair (add_transforms takes any node, line 142); a
\* "Discarded" one is built with MESSAGE and left out of the list handed to
\* add_transforms.
Decl(kind, path, id, keys, comment) ==
    [kind |-> kind, path |-> path, id |-> id, keys |-> keys, comment |-> comment]

D_m1 == Decl("MESSAGE", "a.ftl", "m1", <<"k1">>, None)
D_m2 == Decl("MESSAGE", "a.ftl", "m2", <<"k2", "k3">>, None)
D_m1_again == Decl("MESSAGE", "a.ftl", "m1", <<"k3">>, None)
D_m2_raw == Decl("Entity", "a.ftl", "m2", <<>>, "own")
D_b_m1 == Decl("MESSAGE", "b.ftl", "m1", <<"k2">>, None)
D_m2_nosource == Decl("MESSAGE", "a.ftl", "m2", <<>>, None)
D_m2_discarded == Decl("Discarded", "a.ftl", "m2", <<"k1">>, None)
D_comment == Decl("Comment", "a.ftl", "t", <<>>, None)

Scripts ==
    {<<>>, <<D_m1>>, <<D_m1, D_m2>>, <<D_m2, D_m1>>, <<D_m1, D_m1_again>>,
     <<D_m1_again, D_m1>>, <<D_m2_raw, D_m1>>, <<D_m1, D_b_m1>>,
     <<D_m2_raw, D_m2>>, <<D_m2>>, <<D_m1_again, D_m2>>,
     <<D_m1, D_m2_nosource>>, <<D_m1, D_m2_discarded>>, <<D_comment, D_m1>>}

\* The dependencies after the SOURCE calls of one declaration.
RECURSIVE SourceAll(_, _, _, _)
SourceAll(deps, cm, legacy, keys) ==
    IF keys = <<>> THEN deps
    ELSE SourceAll(source_deps(deps, cm, legacy, LegacyPath, keys[1]),
                   cm, legacy, Tail(keys))

DeclDeps(deps, legacy, d) ==
    IF d.kind \in {"MESSAGE", "Discarded"}
    THEN SourceAll(message_deps(deps, d.path, d.id), <<d.path, d.id>>, legacy, d.keys)
    ELSE deps

DeclPair(legacy, d) ==
    <<d.path,
      IF d.kind = "Comment" THEN Comment(d.id)
      ELSE Entity(d.id,
             [i \in 1..Len(d.keys) |-> source_value(legacy, LegacyPath, d.keys[i])],
             d.comment, d.kind,
             [i \in 1..Len(d.keys) |-> <<LegacyPath, d.keys[i]>>])>>

RECURSIVE ScriptDeps(_, _, _)
ScriptDeps(deps, legacy, script) ==
    IF script = <<>> THEN deps
    ELSE ScriptDeps(DeclDeps(deps, legacy, script[1]), legacy, Tail(script))

\* ctx.add_transforms([d1, d2, ...]) of the script's declarations.
ScriptTransforms(legacy, script) ==
    LET listed == SelectSeq(script, LAMBDA d : d.kind # "Discarded")
    IN  add_transforms_reg(<<>>,
            [i \in 1..Len(listed) |-> DeclPair(legacy, listed[i])])

\* Reference and current files.
RefMsg(id, comment) == Entity(id, <<"en">>, comment, "file", <<>>)
CurMsg(id) == Entity(id, <<"cur">>, None, "file", <<>>)

RefFlat == Resource(<<RefMsg("m1", "c1"), RefMsg("m2", None)>>, "rc")
RefReversed == Resource(<<RefMsg("m2", None), RefMsg("m1", "c1")>>, "rc")
RefSection ==
    Resource(<<Comment("x"), RefMsg("m1", None),
               Section("s", <<RefMsg("m2", "c2")>>, "sc")>>, None)
RefB == Resource(<<RefMsg("m1", None)>>, None)
RefBComment == Resource(<<Comment("y"), RefMsg("m1", None)>>, None)

\* A localization that lacks m2 and holds m3, which the reference lacks.
CurPartial == Resource(<<CurMsg("m3"), CurMsg("m1")>>, "lc")
CurExtra == Resource(<<CurMsg("m3"), CurMsg("m2"), CurMsg("m1")>>, None)

\* The files an add_reference or add_current call may find under a path.
ReferenceFiles(path) ==
    IF path = "a.ftl" THEN {RefFlat, RefReversed, RefSection} ELSE {RefB, RefBComment}
CurrentFiles(path) == IF path = "a.ftl" THEN {CurPartial, CurExtra} ELSE {}

\* The configurations a session starts from: a migration script run for a
\* locale that has no file yet, or one script run for a locale that has one.
SessionConfigs ==
    {<<script, <<>>>> : script \in Scripts}
        \cup {<<(<<D_m1, D_m2>>), ("a.ftl" :> c)>> : c \in {CurPartial, CurExtra}}

ChangesetInputs ==
    {NoChangeset, <<{}>>, <<{<<LegacyPath, "k1">>}>>, <<{<<LegacyPath, "k3">>}>>}

\* The builder calls of a session that follow its migration script.
SessionMessages == {<<"a.ftl", "m2">>}
SessionSources == {<<LegacyPath, "k1">>}

\* The context after __init__, add_legacy, add_reference, add_current and the
\* add_transforms call of a migration script.
Init ==
    /\ legacy_resources = [p \in {LegacyPath} |-> LegacyFile]
    /\ reference_resources = ("a.ftl" :> RefFlat)
    /\ \E config \in SessionConfigs :
          /\ current_resources = config[2]
          /\ transforms = ScriptTransforms(legacy_resources, config[1])
          /\ dependencies = ScriptDeps(<<>>, legacy_resources, config[1])
          /\ current_message = NoMessage
          /\ ret = Returned("add_transforms", config[1], None)
    /\ partial = <<>>
    /\ pending = <<>>
    /\ installed = <<>>
    /\ plural_categories = <<"one", "other">>
    /\ calls = 0

Next ==
    \/ \E path \in TargetPaths : \E file \in ReferenceFiles(path) :
           AddReference(path, file)
    \/ \E path \in TargetPaths : \E file \in CurrentFiles(path) :
           AddCurrent(path, file, <<>>)
    \/ \E path \in TargetPaths : \E r \in Runs :
           path \in DOMAIN r.value /\ AddCurrent(path, r.value[path], <<r>>)
    \/ \E op \in {"add_reference", "add_current"}, path \in TargetPaths,
          exc \in {"IOError", "UnboundLocalError"} : ReadFails(op, path, exc)
    \/ AddLegacy(LegacyPath, LegacyFileMore)
    \/ AddLegacy("b.dtd", LegacyOther)
    \/ \E m \in SessionMessages : Message(m[1], m[2]) /\ Call
    \/ \E s \in SessionSources : Source(s[1], s[2])
    \/ \E s \in SessionSources : SourceNoMessage(s[1], s[2])
    \/ Partial
    \/ \E r \in BuildRaw : RawEntity(r[1], r[2], r[3]) /\ Call
    \/ AddTransforms
    \/ \E changeset \in ChangesetInputs : ContextMerge(changeset)
    \/ \E path \in TargetPaths, changeset \in ChangesetInputs \ {NoChangeset} :
           LibMerge(path, changeset)

Spec == Init /\ [][Next]_vars

----------------------------------------------------------------------------
(* Vocabulary of the properties *)

\* The Message entries of a body, those nested in Sections included.
RECURSIVE MessagesOf(_)
MessagesOf(body) ==
    UNION {IF body[i].type = "Entity" THEN {body[i]}
           ELSE IF body[i].type = "Section" THEN MessagesOf(body[i].body)
           ELSE {} : i \in 1..Len(body)}

IdsOf(body) == {e.id : e \in MessagesOf(body)}

\* The messages a localization holds as entries of its body.
TopMessages(resource) ==
    {resource.body[i] : i \in {j \in 1..Len(resource.body) :
                                  resource.body[j].type = "Entity"}}
TopIds(resource) == {e.id : e \in TopMessages(resource)}

HasOtherEntries(resource) ==
    \E i \in 1..Len(resource.body) : resource.body[i].type # "Entity"

\* The data of one merge call r for one path, and its output.
CallPaths(r) == DOMAIN r.args.reference
CallReference(r, path) == r.args.reference[path]
CallCurrent(r, path) == DictGet(r.args.current, path, EmptyResource)
CallTransforms(r, path) == DictGet(r.args.transforms, path, <<>>)
CallDeps(r, path, ident) == DictGet(r.args.dependencies, <<path, ident>>, {})
\* The pairs the call's gate intersects with: the given set, or for None the
\* pairs whose key a legacy collection holds.
KnownPairs(legacy) ==
    {pair \in Pairs : pair[1] \in DOMAIN legacy /\ pair[2] \in DOMAIN legacy[pair[1]]}
CallChangeset(r) ==
    IF r.args.changeset = NoChangeset THEN KnownPairs(r.args.legacy)
    ELSE r.args.changeset[1]
\* The node is a message called `ident` (a Comment has no identifier).
Named(node, ident) == HasId(node) /\ node.id = ident
HasTransform(r, path, ident) ==
    \E i \in 1..Len(CallTransforms(r, path)) : Named(CallTransforms(r, path)[i], ident)
ReturnedMerge(r) == IsMerge(r) /\ r.exc = None
Output(r, path) == r.value[path]

----------------------------------------------------------------------------
(* C1: non-regression *)

\* C1 (as claimed): in every merge call that returns, for every Message entry
\* of the reference whose identifier is present in `current`, the output holds
\* exactly that existing message of `current`, whatever the transforms and the
\* changeset.  merge of tools/migrate/merge.py consults the gate first and
\* drops such a message when its dependencies miss the changeset.
C1_NonRegression ==
    ReturnedMerge(ret) =>
        \A path \in CallPaths(ret) :
            \A e \in MessagesOf(CallReference(ret, path).body) :
                \A x \in TopMessages(CallCurrent(ret, path)) :
                    x.id = e.id => x \in MessagesOf(Output(ret, path).body)

----------------------------------------------------------------------------
(* C2: changeset gating *)

Absent(r, path, e) == e.id \notin TopIds(CallCurrent(r, path))

Eligible(r, path, e) ==
    /\ CallDeps(r, path, e.id) \cap CallChangeset(r) # {}
    /\ HasTransform(r, path, e.id)

\* C2: in every merge call that returns, a reference message absent from
\* `current` whose Dependency Set is D appears in the output if and only if
\* D intersected with the changeset is non-empty and a transform with its
\* identifier is registered for the path; and a merge call raises only on a
\* Comment or Section it reads an identifier from, in the reference, in
\* `current` or in the path's list of transforms, never because a transform
\* is missing or the gate is closed.
C2_ChangesetGating ==
    /\ ReturnedMerge(ret) =>
          \A path \in CallPaths(ret) :
              \A e \in MessagesOf(CallReference(ret, path).body) :
                  Absent(ret, path, e) =>
                      (e.id \in IdsOf(Output(ret, path).body)
                           <=> Eligible(ret, path, e))
    /\ (IsMerge(ret) /\ ret.exc # None) =>
          \E path \in CallPaths(ret) :
              \/ HasOtherEntries(CallCurrent(ret, path))
              \/ ret.op = "merge" /\ HasOtherEntries(CallReference(ret, path))
              \/ \E i \in 1..Len(CallTransforms(ret, path)) :
                     ~HasId(CallTransforms(ret, path)[i])

\* A returned merge call that emitted a message absent from `current` and
\* withheld another one whose transform exists but whose dependencies miss the
\* changeset.
C2_Witness ==
    /\ ReturnedMerge(ret)
    /\ \E path \in CallPaths(ret) :
          \E e, f \in MessagesOf(CallReference(ret, path).body) :
              /\ Absent(ret, path, e) /\ Eligible(ret, path, e)
              /\ e.id \in IdsOf(Output(ret, path).body)
              /\ Absent(ret, path, f) /\ HasTransform(ret, path, f.id)
              /\ CallDeps(ret, path, f.id) # {}
              /\ CallDeps(ret, path, f.id) \cap CallChangeset(ret) = {}
              /\ f.id \notin IdsOf(Output(ret, path).body)

----------------------------------------------------------------------------
(* C3: successive merges *)

\* C3 (as claimed): when a merge run takes the merged Resource of an earlier
\* run as `current` and returns, every message of the earlier output, at top
\* level or inside a Section, is in its output, whatever the changeset.
C3_MonotonicMerges ==
    ReturnedMerge(ret) =>
        \A path \in CallPaths(ret) \cap DOMAIN installed :
            LET earlier == installed[path]
            IN  (/\ CallCurrent(ret, path) = Output(earlier, path)
                 /\ CallReference(ret, path) = CallReference(earlier, path))
                => \A m \in MessagesOf(Output(earlier, path).body) :
                       m \in MessagesOf(Output(ret, path).body)

----------------------------------------------------------------------------
(* C4: order preservation *)

EntryKey(e) ==
    IF e.type = "Entity" THEN <<"Entity", e.id>>
    ELSE IF e.type = "Section" THEN <<"Section", e.key>>
    ELSE <<"Comment", e.content>>

Keys(body) == [i \in 1..Len(body) |-> EntryKey(body[i])]

IsSection(e) == e.type = "Section"
SectionsOf(body) == SelectSeq(body, IsSection)

RECURSIVE IsSubsequence(_, _)
IsSubsequence(a, b) ==
    IF a = <<>> THEN TRUE
    ELSE IF b = <<>> THEN FALSE
    ELSE IF a[1] = b[1] THEN IsSubsequence(Tail(a), Tail(b))
    ELSE IsSubsequence(a, Tail(b))

RECURSIVE OrderPreserved(_, _)
OrderPreserved(out, ref) ==
    /\ IsSubsequence(Keys(out), Keys(ref))
    /\ Len(SectionsOf(out)) = Len(SectionsOf(ref))
    /\ \A i \in 1..Len(SectionsOf(out)) :
          /\ SectionsOf(out)[i].key = SectionsOf(ref)[i].key
          /\ OrderPreserved(SectionsOf(out)[i].body, SectionsOf(ref)[i].body)

\* C4: in every merge call that returns, the entries of the merged Resource,
\* read as message identifiers, Section keys and Comments, are a subsequence
\* of the reference's entries in reference order, and every Section of the
\* reference is there with its body merged the same way.
C4_OrderPreservation ==
    ReturnedMerge(ret) =>
        \A path \in CallPaths(ret) :
            OrderPreserved(Output(ret, path).body, CallReference(ret, path).body)

\* A returned merge whose `current` lists its messages in another order than
\* the reference, and whose output keeps a Comment, a message and a Section
\* with a message in it.
C4_Witness ==
    /\ ReturnedMerge(ret)
    /\ \E path \in CallPaths(ret) :
          LET out == Output(ret, path).body
              cur == CallCurrent(ret, path).body
          IN  /\ Len(out) >= 3
              /\ \E i \in 1..Len(out) : out[i].type = "Comment"
              /\ \E i \in 1..Len(out) : out[i].type = "Section" /\ out[i].body # <<>>
              /\ Len(Keys(cur)) >= 1
              /\ ~IsSubsequence(Keys(cur), Keys(CallReference(ret, path).body))

----------------------------------------------------------------------------
(* C5: the recorded Dependency Sets *)

LeafSet(leaves) == {leaves[i] : i \in 1..Len(leaves)}

\* The Source leaves of the transform trees declared with MESSAGE(path, id),
\* oldest declaration first: the registered ones, the ones of the list under
\* construction, and the one whose partial is still open.
BuildsOf(path, id) ==
    LET IsBuild(e) == HasId(e) /\ e.decl = "MESSAGE" /\ e.id = id
        IsPair(pair) == pair[1] = path /\ IsBuild(pair[2])
        registered == SelectSeq(DictGet(transforms, path, <<>>), IsBuild)
        listed == SelectSeq(pending, IsPair)
        open == IF partial # <<>> /\ partial[1].path = path /\ partial[1].key = id
                THEN <<partial[1].leaves>> ELSE <<>>
    IN  [i \in 1..Len(registered) |-> registered[i].leaves]
        \o [i \in 1..Len(listed) |-> listed[i][2].leaves]
        \o open

\* C5 (as claimed): the Dependency Set recorded for (target_path, identifier)
\* is exactly the set of pairs passed to source while building that message's
\* transform trees, after any sequence of builder calls.
C5_AllSourcesRecorded ==
    \A m \in DOMAIN dependencies :
        dependencies[m] =
            UNION {LeafSet(BuildsOf(m[1], m[2])[i]) :
                       i \in 1..Len(BuildsOf(m[1], m[2]))}

\* Two registered messages with different, non-empty Dependency Sets, one of
\* them read from two distinct legacy keys.
C5_Witness ==
    /\ partial = <<>> /\ pending = <<>>
    /\ \E m, n \in DOMAIN dependencies :
          /\ m # n
          /\ Cardinality(dependencies[m]) = 2
          /\ dependencies[n] # {}
          /\ dependencies[n] # dependencies[m]

----------------------------------------------------------------------------
(* C6: idempotence of merge(None) *)

SameContext(r, q) ==
    /\ r.args.reference = q.args.reference
    /\ r.args.transforms = q.args.transforms
    /\ r.args.dependencies = q.args.dependencies
    /\ r.args.legacy = q.args.legacy

\* The run whose output was installed as `current` of every reference path
\* before the call r.
InstalledFrom(r, first) ==
    \A path \in CallPaths(r) :
        /\ path \in DOMAIN installed
        /\ installed[path] = first
        /\ CallCurrent(r, path) = Output(first, path)

\* C6: a MergeContext.merge(None) call leaves the data a second call reads as
\* it found them, and when it runs after the output of an earlier
\* merge(None) of the same context was installed as the `current` resources,
\* it returns for every reference path the output of that earlier run.
C6_Idempotence ==
    (ret.op = "merge" /\ ret.args.changeset = NoChangeset) =>
        /\ reference_resources = ret.args.reference
        /\ transforms = ret.args.transforms
        /\ dependencies = ret.args.dependencies
        /\ legacy_resources = ret.args.legacy
        /\ \A path \in DOMAIN installed :
              LET first == installed[path]
              IN  (/\ first.op = "merge"
                   /\ first.args.changeset = NoChangeset
                   /\ SameContext(first, ret)
                   /\ InstalledFrom(ret, first))
                  => ret.exc = None /\ ret.value = first.value

\* A second merge(None) run over the installed output of a first one that
\* had synthesized a message and kept an existing one.
C6_Witness ==
    /\ ret.op = "merge" /\ ret.args.changeset = NoChangeset /\ ret.exc = None
    /\ \E path \in DOMAIN installed :
          LET first == installed[path]
          IN  /\ first.op = "merge" /\ first.args.changeset = NoChangeset
              /\ SameContext(first, ret) /\ InstalledFrom(ret, first)
              /\ first.args.current # ret.args.current
              /\ \E q \in CallPaths(first) :
                    \E e, x \in MessagesOf(Output(first, q).body) :
                        e.decl = "MESSAGE" /\ x.decl = "file"

----------------------------------------------------------------------------
(* C7: source of a missing legacy key *)

\* C7: a source(legacy_path, legacy_key) call made while a message is active
\* leaves (legacy_path, legacy_key) in the active message's Dependency Set,
\* and when legacy_path has a legacy collection it raises nothing and returns
\* the legacy value, or the absent marker when the collection does not hold
\* the key.
C7_SourceMissingKey ==
    (ret.op = "SOURCE" /\ current_message # NoMessage) =>
        /\ current_message \in DOMAIN dependencies
        /\ ret.args \in dependencies[current_message]
        /\ ret.args[1] \in DOMAIN legacy_resources =>
               /\ ret.exc = None
               /\ ret.value = IF ret.args[2] \in DOMAIN LegacyFile
                              THEN LegacyFile[ret.args[2]] ELSE None

\* source has just been called for the key k3, which a.dtd does not hold.
C7_Witness ==
    /\ ret.op = "SOURCE" /\ ret.exc = None
    /\ ret.args = <<LegacyPath, "k3">>
    /\ ret.value = None
    /\ ret.args \in dependencies[current_message]

----------------------------------------------------------------------------
(* C8: the default changeset *)

\* C8: MergeContext.merge(None) has the outcome of merge(U), U the set of
\* (path, key) pairs with key in the legacy collection registered under path;
\* a message whose dependencies are all outside U is not synthesized by it.
C8_DefaultChangeset ==
    (ret.op = "merge" /\ ret.args.changeset = NoChangeset) =>
        LET U == KnownPairs(ret.args.legacy)
            explicit == [path \in CallPaths(ret) |->
                            MergePath("tools", ret.args, path, U)]
        IN  /\ ret.exc = None <=> \A path \in CallPaths(ret) : ~explicit[path].exc
            /\ ret.exc = None =>
                  \A path \in CallPaths(ret) :
                      /\ Output(ret, path) = explicit[path].resource
                      /\ \A e \in MessagesOf(CallReference(ret, path).body) :
                            (Absent(ret, path, e) /\ CallDeps(ret, path, e.id) \cap U = {})
                                => e.id \notin IdsOf(Output(ret, path).body)

\* A returned merge(None) that synthesized one message and withheld another
\* one, absent from `current` and with a transform, whose only dependency is
\* a key no legacy collection holds.
C8_Witness ==
    /\ ret.op = "merge" /\ ret.args.changeset = NoChangeset /\ ret.exc = None
    /\ \E path \in CallPaths(ret) :
          \E e, f \in MessagesOf(CallReference(ret, path).body) :
              /\ Absent(ret, path, e) /\ HasTransform(ret, path, e.id)
              /\ CallDeps(ret, path, e.id) # {}
              /\ CallDeps(ret, path, e.id) \cap KnownPairs(ret.args.legacy) = {}
              /\ e.id \notin IdsOf(Output(ret, path).body)
              /\ Absent(ret, path, f)
              /\ f.id \in IdsOf(Output(ret, path).body)

----------------------------------------------------------------------------
(* C9: merge reads its inputs only *)

\* C9 (as claimed): a merge call leaves the Transform Registry, every field of
\* every registered transform included, the Dependency Sets, the legacy
\* collections and the reference and current Resources as they were.
C9_MergeReadOnly ==
    IsMerge(ret) =>
        /\ transforms = ret.args.transforms
        /\ dependencies = ret.args.dependencies
        /\ legacy_resources = ret.args.legacy
        /\ \A path \in CallPaths(ret) :
              reference_resources[path] = CallReference(ret, path)
        /\ current_resources = ret.args.current

----------------------------------------------------------------------------
(* C10: registry order and duplicate identifiers *)

\* The nodes a list of (path, node) pairs declares for one path, in order.
NodesFor(pairs, path) ==
    LET ForPath(pair) == pair[1] = path
        mine == SelectSeq(pairs, ForPath)
    IN  [i \in 1..Len(mine) |-> mine[i][2]]

Appended ==
    \A path \in TargetPaths :
        DictGet(transforms', path, <<>>) =
            DictGet(transforms, path, <<>>) \o NodesFor(pending, path)

\* The transform of the lowest index among those of the call's list that
\* carry the identifier.
FirstDeclared(r, path, ident) ==
    LET trs == CallTransforms(r, path)
        first == CHOOSE i \in 1..Len(trs) :
                     /\ Named(trs[i], ident)
                     /\ \A j \in 1..(i - 1) : ~Named(trs[j], ident)
    IN  trs[first]

SameButComment(m, t) == [m EXCEPT !.comment = t.comment] = t

FirstMatchEmitted(r) ==
    \A path \in CallPaths(r) :
        \A m \in MessagesOf(Output(r, path).body) :
            m.id \notin TopIds(CallCurrent(r, path))
                => SameButComment(m, FirstDeclared(r, path, m.id))

\* C10: add_transforms appends the nodes of its list to the lists of their
\* paths, in call order, and keeps every earlier entry in place, one with the
\* same identifier included; and the message a merge synthesizes for an
\* identifier is the first transform declared with it.
C10_Step ==
    /\ (pending # <<>> /\ pending' = <<>> /\ ret'.op = "add_transforms") => Appended
    /\ ReturnedMerge(ret') => FirstMatchEmitted(ret')

C10_RegistryOrder == [][C10_Step]_vars

\* A returned merge that synthesized a message for an identifier two
\* different registered transforms of the path carry.
C10_Witness ==
    /\ ReturnedMerge(ret)
    /\ \E path \in CallPaths(ret) :
          LET trs == CallTransforms(ret, path)
          IN  \E i, j \in 1..Len(trs) :
                  /\ i < j /\ HasId(trs[i]) /\ HasId(trs[j])
                  /\ trs[i].id = trs[j].id /\ trs[i] # trs[j]
                  /\ trs[i].id \notin TopIds(CallCurrent(ret, path))
                  /\ \E m \in MessagesOf(Output(ret, path).body) :
                         SameButComment(m, trs[i])

----------------------------------------------------------------------------
(* C11: plural variants *)

\* The tokens a pattern's elements render to, an external argument as "$num".
RECURSIVE Render(_)
Render(elements) ==
    IF elements = <<>> THEN <<>>
    ELSE (IF elements[1].type = "TextElement" THEN elements[1].value
          ELSE <<"$num">>) \o Render(Tail(elements))

Substituted(form) == [i \in 1..Len(form) |-> IF form[i] = "#1" THEN "$num" ELSE form[i]]

\* The forms of a legacy value, read off the positions of its delimiters.
Delimiters(value) == {i \in 1..Len(value) : value[i] = ";"}
FormCount(value) == Cardinality(Delimiters(value)) + 1
Cut(value, k) ==
    IF k = 0 THEN 0
    ELSE IF k = FormCount(value) THEN Len(value) + 1
    ELSE CHOOSE d \in Delimiters(value) :
             Cardinality({e \in Delimiters(value) : e <= d}) = k
Form(value, i) == SubSeq(value, Cut(value, i - 1) + 1, Cut(value, i) - 1)

\* The legacy value a PLURALS call read.
PluralSource(r) == legacy_resources[r.args.path][r.args.key]

\* One variant per plural category of the context, in category order: the
\* i-th keyed with the i-th category, its value the i-th form of the legacy
\* value as one literal under COPY and with the placeholder #1 replaced by the
\* external argument under REPLACE; the variant keyed `other`, and no other
\* one, is the default.
OneVariantPerCategory(r) ==
    LET cats == plural_categories
        variants == r.value.variants
    IN  /\ r.value.type = "SelectExpression"
        /\ Len(variants) = Len(cats)
        /\ \A i \in 1..Len(variants) :
              /\ variants[i].key = cats[i]
              /\ variants[i].default <=> cats[i] = "other"
              /\ IF r.args.foreach = "COPY"
                 THEN variants[i].value = <<TextElement(Form(PluralSource(r), i))>>
                 ELSE Render(variants[i].value) = Substituted(Form(PluralSource(r), i))
        /\ Cardinality({i \in 1..Len(variants) : variants[i].default}) = 1

----------------------------------------------------------------------------
(* C12: effect and frame of MESSAGE *)

\* A step that calls MESSAGE: it starts from no open partial and leaves the
\* partial of the message open.
MessageCalled == NoOpenPartial /\ ret'.op = "MESSAGE"

\* C12: MESSAGE(target_path, identifier) sets the active-message context to
\* (target_path, identifier) and that message's Dependency Set to the empty
\* set, and leaves the Dependency Set of every other message, the Transform
\* Registry and the list under construction as they were.
C12_Step ==
    MessageCalled =>
        /\ ret'.op = "MESSAGE"
        /\ current_message' = ret'.args
        /\ DOMAIN dependencies' = DOMAIN dependencies \cup {ret'.args}
        /\ dependencies'[ret'.args] = {}
        /\ \A m \in DOMAIN dependencies \ {ret'.args} :
               dependencies'[m] = dependencies[m]
        /\ transforms' = transforms
        /\ pending' = pending

C12_MessageEffect == [][C12_Step]_vars

\* MESSAGE has just been called again for a message that is registered with a
\* transform read from a legacy key: its Dependency Set was not empty.
C12_Witness ==
    /\ ret.op = "MESSAGE" /\ partial # <<>>
    /\ current_message = ret.args
    /\ dependencies[ret.args] = {}
    /\ \E i \in 1..Len(DictGet(transforms, ret.args[1], <<>>)) :
           /\ transforms[ret.args[1]][i].id = ret.args[2]
           /\ transforms[ret.args[1]][i].decl = "MESSAGE"
           /\ transforms[ret.args[1]][i].leaves # <<>>

----------------------------------------------------------------------------
(* C13: the single-slot context protocol *)

\* C13: add_transforms, registering the pairs of its list, clears the
\* active-message context, so the build that follows starts from a cleared
\* context; and a source call made while no context is active raises and adds
\* no pair to any Dependency Set.
C13_Step ==
    /\ (ret'.op = "add_transforms" /\ pending # <<>>) => current_message' = NoMessage
    /\ (ret.op = "add_transforms" /\ ret.args # <<>> /\ ret'.op = "MESSAGE")
           => current_message = NoMessage
    /\ (ret'.op = "SOURCE" /\ current_message = NoMessage) =>
           /\ ret'.exc = "KeyError"
           /\ dependencies' = dependencies
           /\ current_message' = NoMessage

C13_SingleSlot == [][C13_Step]_vars

\* A source call that failed after add_transforms had registered a message
\* with a non-empty Dependency Set.
C13_Witness ==
    /\ ret.op = "SOURCE" /\ ret.exc = "KeyError"
    /\ current_message = NoMessage
    /\ transforms # <<>>
    /\ \E m \in DOMAIN dependencies : dependencies[m] # {}

----------------------------------------------------------------------------
(* C14: Sections and Comments *)

\* The Comments and Sections of a body, in order, each Section with the
\* Comments and Sections of its own body.
RECURSIVE Skeleton(_)
Skeleton(body) ==
    LET others == SelectSeq(body, LAMBDA e : e.type # "Entity")
    IN  [i \in 1..Len(others) |->
            IF others[i].type = "Section"
            THEN Section(others[i].key, Skeleton(others[i].body), others[i].comment)
            ELSE others[i]]

\* The messages of every Section of `out` carry identifiers of the Section
\* with the same position in `ref`.
RECURSIVE SectionBodiesMerged(_, _)
SectionBodiesMerged(out, ref) ==
    \A i \in 1..Len(SectionsOf(out)) :
        /\ IdsOf(SectionsOf(out)[i].body) \subseteq IdsOf(SectionsOf(ref)[i].body)
        /\ SectionBodiesMerged(SectionsOf(out)[i].body, SectionsOf(ref)[i].body)

\* C14 (as claimed): a merge call over a reference that holds Comments or
\* Sections returns; every Section of the reference is in the output once,
\* at its place, with the reference Section's key and comment and the merge of
\* its body, also when that body comes out empty; every Comment is copied.
C14_SectionHandling ==
    IsMerge(ret) =>
        \A path \in CallPaths(ret) :
            HasOtherEntries(CallReference(ret, path)) =>
                /\ ret.exc = None
                /\ Skeleton(Output(ret, path).body)
                       = Skeleton(CallReference(ret, path).body)
                /\ SectionBodiesMerged(Output(ret, path).body,
                                       CallReference(ret, path).body)

----------------------------------------------------------------------------
(* C15: comment backfill *)

\* C15 (as claimed): in every merge call that returns, a synthesized message
\* whose transform has no comment of its own is output with the comment of the
\* call's reference message, and one whose transform has its own comment is
\* output with that comment.
C15_CommentBackfill ==
    ReturnedMerge(ret) =>
        \A path \in CallPaths(ret) :
            \A e \in MessagesOf(CallReference(ret, path).body) :
                \A m \in MessagesOf(Output(ret, path).body) :
                    (m.id = e.id /\ Absent(ret, path, e)) =>
                        LET t == FirstDeclared(ret, path, e.id)
                        IN  m.comment = IF t.comment = None THEN e.comment
                                        ELSE t.comment

----------------------------------------------------------------------------
(* C16: an empty Dependency Set never opens the gate *)

NoDependencies(r, path, e) == CallDeps(r, path, e.id) = {}

\* C16: in every merge call that returns, whatever the changeset, None
\* included, a reference message absent from `current` whose Dependency Set is
\* empty or was never recorded is not in the output, registered transform or
\* not.
C16_EmptyDependencies ==
    ReturnedMerge(ret) =>
        \A path \in CallPaths(ret) :
            \A e \in MessagesOf(CallReference(ret, path).body) :
                (Absent(ret, path, e) /\ NoDependencies(ret, path, e))
                    => e.id \notin IdsOf(Output(ret, path).body)

\* A returned merge(None) that synthesized a message and withheld another one,
\* absent from `current`, whose transform is registered and whose Dependency
\* Set was never recorded (plain FTL.Entity) or is empty (MESSAGE without
\* SOURCE).
C16_Witness ==
    /\ ReturnedMerge(ret) /\ ret.args.changeset = NoChangeset
    /\ \E path \in CallPaths(ret) :
          \E e, f \in MessagesOf(CallReference(ret, path).body) :
              /\ Absent(ret, path, e) /\ HasTransform(ret, path, e.id)
              /\ <<path, e.id>> \in DOMAIN ret.args.dependencies
              /\ NoDependencies(ret, path, e)
              /\ e.id \notin IdsOf(Output(ret, path).body)
              /\ Absent(ret, path, f)
              /\ f.id \in IdsOf(Output(ret, path).body)

----------------------------------------------------------------------------
(* C17: per-path independence *)

Restrict(f, S) == [x \in DOMAIN f \cap S |-> f[x]]

\* The data of a merge call with everything that belongs to another path than
\* `path` removed.
OnlyPath(in, path) ==
    [changeset |-> in.changeset,
     reference |-> Restrict(in.reference, {path}),
     current |-> Restrict(in.current, {path}),
     transforms |-> Restrict(in.transforms, {path}),
     dependencies |-> Restrict(in.dependencies,
                               {m \in DOMAIN in.dependencies : m[1] = path}),
     legacy |-> in.legacy]

\* C17 (as claimed): what MergeContext.merge gives for a reference path P is
\* what it gives when P is the only path of the context: the reference,
\* current, transforms and Dependency Sets of the other paths change nothing
\* for P, a failure on another path included.
C17_PathIndependence ==
    ret.op = "merge" =>
        \A path \in CallPaths(ret) :
            LET alone == MergePath("tools", OnlyPath(ret.args, path), path,
                                   CallChangeset(ret))
            IN  ~alone.exc =>
                    /\ ret.exc = None
                    /\ Output(ret, path) = alone.resource

----------------------------------------------------------------------------
(* C18: provenance of the output's messages *)

\* C18: in every merge call that returns, every message of the merged
\* Resource carries an identifier of a reference message and is a message of
\* `current` or a transform of the path's registry, never the reference's own
\* message; a message of `current` whose identifier the reference lacks is
\* not in the output.
C18_Provenance ==
    ReturnedMerge(ret) =>
        \A path \in CallPaths(ret) :
            /\ \A m \in MessagesOf(Output(ret, path).body) :
                  /\ m.id \in IdsOf(CallReference(ret, path).body)
                  /\ \/ m \in TopMessages(CallCurrent(ret, path))
                     \/ \E i \in 1..Len(DictGet(transforms, path, <<>>)) :
                            transforms[path][i] = m
                  /\ m \notin MessagesOf(CallReference(ret, path).body)
            /\ \A x \in TopMessages(CallCurrent(ret, path)) :
                  x.id \notin IdsOf(CallReference(ret, path).body)
                      => x.id \notin IdsOf(Output(ret, path).body)

\* A returned merge whose output holds a message of `current` and a
\* transform, and whose `current` holds a message the reference lacks.
C18_Witness ==
    /\ ReturnedMerge(ret)
    /\ \E path \in CallPaths(ret) :
          LET out == MessagesOf(Output(ret, path).body)
              cur == TopMessages(CallCurrent(ret, path))
              ref == MessagesOf(CallReference(ret, path).body)
          IN  /\ \E m \in out : m \in cur
              /\ \E m \in out : m \notin cur /\ m.decl # "file"
              /\ \E x \in cur : x.id \notin IdsOf(CallReference(ret, path).body)

----------------------------------------------------------------------------
(* C19: changeset monotonicity *)

\* The messages of a body in document order, those of Sections included.
RECURSIVE MessageSeq(_)
MessageSeq(body) ==
    IF body = <<>> THEN <<>>
    ELSE (IF body[1].type = "Entity" THEN <<body[1]>>
          ELSE IF body[1].type = "Section" THEN MessageSeq(body[1].body)
          ELSE <<>>) \o MessageSeq(Tail(body))

MergeFunction(r) == IF r.op = "merge" THEN "tools" ELSE "l20n"

\* The merge of the call's data for one path under another changeset.
Under(r, path, changeset) == MergePath(MergeFunction(r), r.args, path, changeset)

\* C19: for the reference, current, transforms and Dependency Sets of a merge
\* call that returned, the messages of the output under any subset of the
\* call's changeset, when that merge returns, are messages of the call's
\* output, equal in content and in the same relative order.
C19_ChangesetMonotonicity ==
    ReturnedMerge(ret) =>
        \A path \in CallPaths(ret) :
            \A smaller \in SUBSET CallChangeset(ret) :
                ~Under(ret, path, smaller).exc =>
                    IsSubsequence(MessageSeq(Under(ret, path, smaller).resource.body),
                                  MessageSeq(Output(ret, path).body))

\* A returned merge whose output holds two synthesized messages, one of which
\* a smaller changeset withholds while it still emits the other.
C19_Witness ==
    /\ ReturnedMerge(ret)
    /\ \E path \in CallPaths(ret) :
          \E smaller \in SUBSET CallChangeset(ret) :
              LET less == Under(ret, path, smaller)
              IN  /\ ~less.exc
                  /\ MessageSeq(less.resource.body) # <<>>
                  /\ Len(MessageSeq(less.resource.body))
                         < Len(MessageSeq(Output(ret, path).body))

----------------------------------------------------------------------------
(* C20: the gate and the emitted transform *)

\* C20 (as claimed): at every merge call, for every (target_path, identifier)
\* with a registered transform, the Dependency Set the gate consults is the
\* set of source pairs read while building the transform that merge emits for
\* the identifier, the first one declared with it.
C20_GateMatchesTransform ==
    IsMerge(ret) =>
        \A path \in CallPaths(ret) :
            \A ident \in Idents :
                HasTransform(ret, path, ident) =>
                    CallDeps(ret, path, ident)
                        = LeafSet(FirstDeclared(ret, path, ident).leaves)

====
